---------------------------- MODULE Spec2Model ----------------------------
(***************************************************************************)
(* State-machine model of the chat server in src/server.js: the user and   *)
(* room registries, the per-connection current-room pointer, the socket.io *)
(* channel subscriptions, the per-room message history, and one action per *)
(* socket event handler.  Strings are sequences of one-character strings   *)
(* so that trim / lower-case / slug / concatenation are computed.          *)
(***************************************************************************)
EXTENDS Integers, Sequences, FiniteSets, TLC

(***************************************************************************)
(* Bounds of the model.                                                    *)
(***************************************************************************)
MaxConns == 2          \* sockets that ever connect
MaxMsgs  == 1          \* messages stored during a run of SpecChat

(***************************************************************************)
(* Program constants.                                                      *)
(***************************************************************************)
HistoryLimit == 100    \* server.js:430
NameLimit    == 20     \* server.js:363, 474
MessageLimit == 500    \* server.js:404, 454

Conns == 1..MaxConns

(***************************************************************************)
(* Strings.                                                                *)
(***************************************************************************)
Null      == <<"null">>        \* JavaScript null (no string has this shape)
Undefined == <<"undefined">>   \* JavaScript undefined

IsSpace(ch) == ch \in {" "}

LowerChar(ch) ==
  CASE ch = "A" -> "a"
    [] ch = "I" -> "i"
    [] ch = "G" -> "g"
    [] OTHER -> ch

RECURSIVE TrimLeft(_)
TrimLeft(s) ==
  IF s = <<>> THEN s
  ELSE IF IsSpace(Head(s)) THEN TrimLeft(Tail(s)) ELSE s

RECURSIVE TrimRight(_)
TrimRight(s) ==
  IF s = <<>> THEN s
  ELSE IF IsSpace(s[Len(s)]) THEN TrimRight(SubSeq(s, 1, Len(s) - 1)) ELSE s

\* String.prototype.trim
Trim(s) == TrimRight(TrimLeft(s))

\* String.prototype.substring(0, n)
Substring0(s, n) == IF Len(s) <= n THEN s ELSE SubSeq(s, 1, n)

\* String.prototype.toLowerCase
ToLowerCase(s) == [i \in 1..Len(s) |-> LowerChar(s[i])]

\* s.replace(/\s+/g, "-"): every maximal run of whitespace becomes one hyphen
RECURSIVE ReplaceSpaces(_)
ReplaceSpaces(s) ==
  IF s = <<>> THEN s
  ELSE IF IsSpace(Head(s))
       THEN <<"-">> \o ReplaceSpaces(TrimLeft(s))
       ELSE <<Head(s)>> \o ReplaceSpaces(Tail(s))

\* roomName.toLowerCase().replace(/\s+/g, "-")
Slug(s) == ReplaceSpaces(ToLowerCase(s))

StartsWithSlash(s) == Len(s) > 0 /\ s[1] = "/"

General == <<"g", "e", "n", "e", "r", "a", "l">>
Random  == <<"r", "a", "n", "d", "o", "m">>
DefaultRooms == {General, Random}

Restrict(f, S) == [x \in S |-> f[x]]

(***************************************************************************)
(* Values Math.random().toString(36).substring(2, 8).toUpperCase() can     *)
(* return: 0.5 gives "I", 7/36 gives "7".                                  *)
(***************************************************************************)
generateRoomKey == {<<"I">>, <<"7">>}

(***************************************************************************)
(* State.                                                                  *)
(***************************************************************************)
VARIABLES
  sockets,         \* socket id -> "new" | "open" | "closed"
  users,           \* Map socket id -> username
  userRooms,       \* Map socket id -> room id (current-room pointer)
  rooms,           \* Map room id -> room object
  messageHistory,  \* room id -> sequence of stored messages
  channels,        \* socket.io adapter: socket id -> set of room ids joined
  clock,           \* source of message ids (Date.now() + Math.random())
  crashed,         \* an uncaught TypeError ended the process
  out,             \* what the last handler emitted, in order
  lastJoinKey,     \* history variable: socket id -> key carried by its most
                   \* recent join room request naming the private room it
                   \* is a member of (Null: none, or in no private room)
  madeBy,          \* history variable: private room id -> socket id that
                   \* created it
  writes,          \* the fs.writeFile calls made so far, in dispatch order:
                   \* the text each was given and how far it has got
  disk             \* the content of the message history file

vars == <<sockets, users, userRooms, rooms, messageHistory, channels, clock,
          crashed, out, lastJoinKey, madeBy, writes, disk>>

\* the program state handlers read and write, as one record
Cur ==
  [users |-> users, userRooms |-> userRooms, rooms |-> rooms,
   messageHistory |-> messageHistory, channels |-> channels,
   sockets |-> sockets, clock |-> clock, crashed |-> FALSE, out |-> <<>>]

Open(S) == {c \in Conns : S.sockets[c] = "open"}

\* io.to(roomId): the open sockets subscribed to the channel
Listeners(S, roomId) == {c \in Open(S) : roomId \in S.channels[c]}

Event(ev, to, kind, room, body) ==
  [ev |-> ev, to |-> to, kind |-> kind, room |-> room, body |-> body]

Emit(S, e) == [S EXCEPT !.out = Append(@, e)]

getUserList(S) == [c \in DOMAIN S.users |-> S.users[c]]

getRoomList(S) == [r \in DOMAIN S.rooms |-> Cardinality(S.rooms[r].users)]

\* a "room list" emission; identified records users.size at the time it is sent
RoomListEvent(S, to) ==
  Event("room list", to, "", Null,
        [counts |-> getRoomList(S), identified |-> Cardinality(DOMAIN S.users)])

\* saveMessageHistory(): dispatches a write of the whole history map
saveMessageHistory(S) ==
  Emit(S, Event("writeFile", {}, "", Null, S.messageHistory))

\* io.emit("room list", getRoomList())
BroadcastRoomList(S) == Emit(S, RoomListEvent(S, Open(S)))

\* socket.emit("room list", getRoomList())
SendRoomList(S, c) == Emit(S, RoomListEvent(S, {c}))

\* io.emit("user list", getUserList())
BroadcastUserList(S) ==
  Emit(S, Event("user list", Open(S), "", Null, getUserList(S)))

\* io.to(roomId).emit(ev, ...)
EmitToRoom(S, ev, kind, roomId, body) ==
  Emit(S, Event(ev, Listeners(S, roomId), kind, roomId, body))

(***************************************************************************)
(* leaveRoom(socket, roomId)                                               *)
(***************************************************************************)
\* room.users.delete(socket.id); socket.leave(roomId)
RemoveMember(S, c, roomId) ==
  [S EXCEPT !.rooms[roomId].users = @ \ {c},
            !.channels[c] = @ \ {roomId}]

\* rooms.delete(roomId); delete messageHistory[roomId], for a room left empty
DeleteIfEmpty(S, roomId) ==
  IF S.rooms[roomId].users = {} /\ roomId \notin DefaultRooms
  THEN [S EXCEPT !.rooms = Restrict(@, DOMAIN @ \ {roomId}),
                 !.messageHistory = Restrict(@, DOMAIN @ \ {roomId})]
  ELSE S

\* variant: the socket is not taken out of room.users
leaveRoomKeepsMember(S, c, roomId) ==
  IF c \notin DOMAIN S.users \/ roomId \notin DOMAIN S.rooms THEN S
  ELSE saveMessageHistory(BroadcastRoomList(
         EmitToRoom([S EXCEPT !.channels[c] = @ \ {roomId}],
                    "chat message", "left", roomId, S.users[c])))

\* variant: an emptied room is never removed from the registry
leaveRoomKeepsEmpty(S, c, roomId) ==
  IF c \notin DOMAIN S.users \/ roomId \notin DOMAIN S.rooms THEN S
  ELSE saveMessageHistory(BroadcastRoomList(
         EmitToRoom(RemoveMember(S, c, roomId),
                    "chat message", "left", roomId, S.users[c])))

leaveRoom(S, c, roomId) ==
  IF c \notin DOMAIN S.users \/ roomId \notin DOMAIN S.rooms THEN S
  ELSE saveMessageHistory(BroadcastRoomList(DeleteIfEmpty(
         EmitToRoom(RemoveMember(S, c, roomId),
                    "chat message", "left", roomId, S.users[c]),
         roomId)))

(***************************************************************************)
(* joinRoom(socket, roomId).  `room` is read before the current room is    *)
(* left; when leaving deletes that very room from the registry, the rest   *)
(* of the function works on the object that is no longer registered.       *)
(***************************************************************************)
\* leaveRoom(socket, currentRoom) when currentRoom is set and registered
LeaveCurrent(S, c) ==
  IF c \in DOMAIN S.userRooms /\ S.userRooms[c] \in DOMAIN S.rooms
  THEN leaveRoom(S, c, S.userRooms[c])
  ELSE S

\* room.users after room.users.add(socket.id), where room was read in state S
\* before leaveRoom ran: leaveRoom mutated that object iff it was the room left
RoomUsers(S, c, roomId) ==
  (IF c \in DOMAIN S.userRooms /\ S.userRooms[c] = roomId
   THEN S.rooms[roomId].users \ {c}
   ELSE S.rooms[roomId].users) \cup {c}

\* socket.join(roomId); userRooms.set(socket.id, roomId);
\* room.users.add(socket.id), which shows in the registry while the object is
\* still registered
AddMember(S, c, roomId, roomUsers) ==
  [S EXCEPT !.channels[c] = @ \cup {roomId},
            !.userRooms = [x \in DOMAIN @ \cup {c} |->
                             IF x = c THEN roomId ELSE @[x]],
            !.rooms = IF roomId \in DOMAIN @
                      THEN [@ EXCEPT ![roomId].users = roomUsers]
                      ELSE @]

\* socket.emit("message history", messageHistory[roomId])
SendHistory(S, c, roomId) ==
  IF roomId \in DOMAIN S.messageHistory
  THEN Emit(S, Event("message history", {c}, "", roomId,
                     S.messageHistory[roomId]))
  ELSE S

\* socket.emit("room update", ...) and io.emit("room list", ...);
\* users.get(userId).username throws for a member that is not registered
RoomUpdate(S, c, roomId, roomUsers) ==
  IF \E m \in roomUsers : m \notin DOMAIN S.users
  THEN [S EXCEPT !.crashed = TRUE]
  ELSE BroadcastRoomList(
         Emit(S, Event("room update", {c}, "", roomId,
                       [m \in roomUsers |-> S.users[m]])))

\* variant: the "joined" notice is pushed onto the room's history as well
joinRoomStoresNotice(S, c, roomId) ==
  IF c \notin DOMAIN S.users \/ roomId \notin DOMAIN S.rooms THEN S
  ELSE RoomUpdate(
         EmitToRoom(
           [SendHistory(
              AddMember(LeaveCurrent(S, c), c, roomId, RoomUsers(S, c, roomId)),
              c, roomId)
            EXCEPT !.messageHistory =
              [r \in DOMAIN @ \cup {roomId} |->
                 IF r # roomId THEN @[r]
                 ELSE (IF roomId \in DOMAIN @ THEN @[roomId] ELSE <<>>)
                      \o <<[type |-> "system", user |-> S.users[c],
                            message |-> "joined"]>>]],
           "chat message", "joined", roomId, S.users[c]),
         c, roomId, RoomUsers(S, c, roomId))

joinRoom(S, c, roomId) ==
  IF c \notin DOMAIN S.users \/ roomId \notin DOMAIN S.rooms THEN S
  ELSE RoomUpdate(
         EmitToRoom(
           SendHistory(
             AddMember(LeaveCurrent(S, c), c, roomId, RoomUsers(S, c, roomId)),
             c, roomId),
           "chat message", "joined", roomId, S.users[c]),
         c, roomId, RoomUsers(S, c, roomId))

(***************************************************************************)
(* What a handler leaves behind: the registries and the emissions of this  *)
(* handler.                                                                *)
(***************************************************************************)
Commit(S0) ==
  \E S \in {S0} :
    /\ sockets' = S.sockets
    /\ users' = S.users
    /\ userRooms' = S.userRooms
    /\ rooms' = S.rooms
    /\ messageHistory' = S.messageHistory
    /\ channels' = S.channels
    /\ clock' = S.clock
    /\ crashed' = S.crashed
    /\ out' = S.out

Ready(c) == ~crashed /\ sockets[c] = "open"

(***************************************************************************)
(* io.on("connection")                                                     *)
(***************************************************************************)
OnConnection(c) ==
  /\ ~crashed
  /\ sockets[c] = "new"
  /\ \A d \in Conns : d < c => sockets[d] # "new"   \* ids name arrival order
  /\ Commit([Cur EXCEPT !.sockets[c] = "open"])

(***************************************************************************)
(* socket.on("user join")                                                  *)
(***************************************************************************)
\* users.set(socket.id, userData)
SetUser(S, c, username) ==
  [S EXCEPT !.users = [x \in DOMAIN @ \cup {c} |->
                         IF x = c THEN username ELSE @[x]]]

\* the room list, the user list and the welcome notice
Welcome(S, c) ==
  IF S.crashed THEN S
  ELSE Emit(BroadcastUserList(SendRoomList(S, c)),
            Event("chat message", {c}, "welcome", Null, <<>>))

\* variant: a username that another socket is bound to is rejected
userJoinUnique(S, c, username) ==
  IF username = <<>> \/ Len(Trim(username)) = 0
     \/ \E d \in DOMAIN S.users \ {c} :
          S.users[d] = Substring0(Trim(username), NameLimit)
  THEN Emit(S, Event("error", {c}, "Invalid username", Null, <<>>))
  ELSE Welcome(
         joinRoom(SetUser(S, c, Substring0(Trim(username), NameLimit)),
                  c, General),
         c)

userJoin(S, c, username) ==
  IF username = <<>> \/ Len(Trim(username)) = 0
  THEN Emit(S, Event("error", {c}, "Invalid username", Null, <<>>))
  ELSE Welcome(
         joinRoom(SetUser(S, c, Substring0(Trim(username), NameLimit)),
                  c, General),
         c)

OnUserJoin(c, username) ==
  /\ Ready(c)
  /\ Commit(userJoin(Cur, c, username))

(***************************************************************************)
(* socket.on("disconnect").  socket.io has already taken the socket out of *)
(* every channel and out of the namespace when the handler runs.           *)
(***************************************************************************)
\* leaveRoom(socket, currentRoom) when currentRoom is set
LeavePointed(S, c) ==
  IF c \in DOMAIN S.userRooms THEN leaveRoom(S, c, S.userRooms[c]) ELSE S

\* variant: users.delete(socket.id) before the room is left
disconnectUsersFirst(S, c) ==
  IF c \notin DOMAIN S.users THEN S
  ELSE BroadcastUserList(
         [LeavePointed([S EXCEPT !.users = Restrict(@, DOMAIN @ \ {c})], c)
            EXCEPT !.userRooms = Restrict(@, DOMAIN @ \ {c})])

\* variant: the entries are deleted without leaving the current room
disconnectKeepsMember(S, c) ==
  IF c \notin DOMAIN S.users THEN S
  ELSE BroadcastUserList(
         [S EXCEPT !.users = Restrict(@, DOMAIN @ \ {c}),
                   !.userRooms = Restrict(@, DOMAIN @ \ {c})])

disconnect(S, c) ==
  IF c \notin DOMAIN S.users THEN S
  ELSE BroadcastUserList(
         [LeavePointed(S, c)
            EXCEPT !.users = Restrict(@, DOMAIN @ \ {c}),
                   !.userRooms = Restrict(@, DOMAIN @ \ {c})])

OnDisconnect(c) ==
  /\ Ready(c)
  /\ Commit(disconnect([Cur EXCEPT !.sockets[c] = "closed",
                                   !.channels[c] = {}], c))

(***************************************************************************)
(* socket.on("create room").  k1 and k2 are the values the two calls of    *)
(* generateRoomKey() return (each is made only on its branch).             *)
(***************************************************************************)
\* rooms.set(roomId, roomData)
Register(S, roomId, roomData) ==
  [S EXCEPT !.rooms = [r \in DOMAIN @ \cup {roomId} |->
                         IF r = roomId THEN roomData ELSE @[r]]]

\* the room list and the notice that tells the creator the key
Created(S, c, roomId, key) ==
  IF S.crashed THEN S
  ELSE Emit(BroadcastRoomList(S),
            Event("chat message", {c}, "created", roomId, key))

createRoom(S, c, name, type, k1, k2) ==
  IF c \notin DOMAIN S.users THEN S
  ELSE
    LET roomName == Substring0(Trim(name), NameLimit)
        roomType == IF type = "" THEN "public" ELSE type
        slug == Slug(roomName)
        roomId == IF slug \in DOMAIN S.rooms THEN slug \o <<"-">> \o k1
                  ELSE slug
        roomData == [id |-> roomId, name |-> roomName, type |-> roomType,
                     key |-> IF roomType = "private" THEN k2 ELSE Null,
                     creator |-> S.users[c], users |-> {}]
    IN IF roomName = <<>>
       THEN Emit(S, Event("error", {c}, "Room name cannot be empty", Null,
                          <<>>))
       ELSE Created(joinRoom(Register(S, roomId, roomData), c, roomId),
                    c, roomId, roomData.key)

\* the id create room registers for this name, if it registers one
createdId(S, c, name, k1) ==
  LET slug == Slug(Substring0(Trim(name), NameLimit))
  IN IF c \notin DOMAIN S.users \/ slug = <<>> THEN {}
     ELSE IF slug \in DOMAIN S.rooms THEN {slug \o <<"-">> \o k1}
     ELSE {slug}

OnCreateRoom(c, name, type, k1, k2) ==
  /\ Ready(c)
  /\ Commit(createRoom(Cur, c, name, type, k1, k2))

(***************************************************************************)
(* socket.on("join room")                                                  *)
(***************************************************************************)
\* variant: the key of a private room is not compared
joinRoomRequestNoKey(S, c, roomId, key) ==
  IF c \notin DOMAIN S.users THEN S
  ELSE IF roomId \notin DOMAIN S.rooms
  THEN Emit(S, Event("error", {c}, "Room not found", Null, <<>>))
  ELSE joinRoom(S, c, roomId)

\* variant: the current room is left before the request is validated
joinRoomRequestLeavesFirst(S, c, roomId, key) ==
  IF c \notin DOMAIN S.users THEN S
  ELSE IF roomId \notin DOMAIN LeavePointed(S, c).rooms
  THEN Emit(S, Event("error", {c}, "Room not found", Null, <<>>))
  ELSE IF S.rooms[roomId].type = "private" /\ S.rooms[roomId].key # key
  THEN [LeavePointed(S, c) EXCEPT
          !.out = <<Event("error", {c}, "Invalid room key", Null, <<>>)>>]
  ELSE joinRoom(S, c, roomId)

joinRoomRequest(S, c, roomId, key) ==
  IF c \notin DOMAIN S.users THEN S
  ELSE IF roomId \notin DOMAIN S.rooms
  THEN Emit(S, Event("error", {c}, "Room not found", Null, <<>>))
  ELSE IF S.rooms[roomId].type = "private" /\ S.rooms[roomId].key # key
  THEN Emit(S, Event("error", {c}, "Invalid room key", Null, <<>>))
  ELSE joinRoom(S, c, roomId)

OnJoinRoom(c, roomId, key) ==
  /\ Ready(c)
  /\ Commit(joinRoomRequest(Cur, c, roomId, key))

(***************************************************************************)
(* socket.on("leave room")                                                 *)
(***************************************************************************)
leaveRoomRequest(S, c) ==
  IF c \notin DOMAIN S.users THEN S
  ELSE IF c \in DOMAIN S.userRooms /\ S.userRooms[c] # General
  THEN joinRoom(leaveRoom(S, c, S.userRooms[c]), c, General)
  ELSE S

OnLeaveRoom(c) ==
  /\ Ready(c)
  /\ Commit(leaveRoomRequest(Cur, c))

(***************************************************************************)
(* handleCommand(socket, message, user): every branch only emits to the    *)
(* calling socket.  The user list is kept as a map without Map's insertion *)
(* order; /pm resolves to the first matching user in that order, and the   *)
(* reply carries the set of matching users it is one of.                   *)
(***************************************************************************)
RECURSIVE Split(_)
Split(s) ==
  IF \A i \in 1..Len(s) : s[i] # " " THEN <<s>>
  ELSE LET i == CHOOSE j \in 1..Len(s) :
                  s[j] = " " /\ \A k \in 1..(j - 1) : s[k] # " "
       IN <<SubSeq(s, 1, i - 1)>> \o Split(SubSeq(s, i + 1, Len(s)))

RECURSIVE JoinWords(_)
JoinWords(ws) ==
  IF Len(ws) = 0 THEN <<>>
  ELSE IF Len(ws) = 1 THEN ws[1]
  ELSE ws[1] \o <<" ">> \o JoinWords(Tail(ws))

Arg(args, i) == IF Len(args) >= i THEN args[i] ELSE Undefined
Truthy(s) == s # Undefined /\ s # <<>>

handleCommand(S, c, message) ==
  LET args == Split(Tail(message))
      command == ToLowerCase(args[1])
      a1 == Arg(args, 2)
      a2 == Arg(args, 3)
      matches == {x \in DOMAIN S.users :
                    ToLowerCase(S.users[x]) = ToLowerCase(a1)}
  IN CASE command = <<"h", "e", "l", "p">> ->
            Emit(S, Event("chat message", {c}, "help", Null, <<>>))
       [] command = <<"u", "s", "e", "r", "s">> ->
            Emit(S, Event("chat message", {c}, "users", Null, getUserList(S)))
       [] command = <<"r", "o", "o", "m", "s">> ->
            Emit(S, Event("chat message", {c}, "rooms", Null, getRoomList(S)))
       [] command = <<"c", "r", "e", "a", "t", "e">> ->
            IF Truthy(a1)
            THEN Emit(S, Event("create room", {c}, "", Null,
                   [name |-> a1,
                    type |-> IF a2 = <<"p", "r", "i", "v", "a", "t", "e">>
                             THEN "private" ELSE "public"]))
            ELSE Emit(S, Event("error", {c}, "Usage: /create", Null, <<>>))
       [] command = <<"j", "o", "i", "n">> ->
            IF Truthy(a1)
            THEN Emit(S, Event("join room", {c}, "", Null,
                   [roomId |-> ReplaceSpaces(ToLowerCase(a1)), key |-> a2]))
            ELSE Emit(S, Event("error", {c}, "Usage: /join", Null, <<>>))
       [] command = <<"l", "e", "a", "v", "e">> ->
            Emit(S, Event("leave room", {c}, "", Null, <<>>))
       [] command = <<"i", "n", "f", "o">> ->
            IF c \in DOMAIN S.userRooms
            THEN Emit(S, Event("get room info", {c}, "", Null, S.userRooms[c]))
            ELSE S
       [] command = <<"p", "m">> ->
            IF Len(args) >= 3
            THEN IF matches # {}
                 THEN Emit(S, Event("private message", {c}, "", Null,
                        [toUserId |-> matches,
                         message |-> JoinWords(SubSeq(args, 3, Len(args)))]))
                 ELSE Emit(S, Event("error", {c}, "User not found", Null, a1))
            ELSE Emit(S, Event("error", {c}, "Usage: /pm", Null, <<>>))
       [] OTHER ->
            Emit(S, Event("error", {c}, "Unknown command", Null, command))

(***************************************************************************)
(* socket.on("chat message")                                               *)
(***************************************************************************)
\* messageHistory[room].push(m), creating the entry when absent
Push(h, room, m) ==
  [r \in DOMAIN h \cup {room} |->
     IF r = room
     THEN (IF room \in DOMAIN h THEN Append(h[room], m) ELSE <<m>>)
     ELSE h[r]]

\* Array.prototype.slice(-n)
SliceLast(q, n) == IF Len(q) <= n THEN q ELSE SubSeq(q, Len(q) - n + 1, Len(q))

NoReactions == [e \in {} |-> <<>>]

\* variant: a sender that has not identified is dropped without a reply
chatMessageSilent(S, c, text) ==
  IF c \notin DOMAIN S.users THEN S
  ELSE Emit(S, Event("error", {c}, "Please join first", Null, <<>>))

\* messageHistory[room].push(messageData); the id is the time of the push
StoreMessage(S, room, messageData) ==
  [S EXCEPT !.messageHistory = Push(@, room, messageData), !.clock = @ + 1]

\* if (messageHistory[room].length > 100) ... slice(-100)
\* variant: the cap keeps the oldest entries, slice(0, 100)
CapHistoryKeepsOldest(S, room) ==
  IF Len(S.messageHistory[room]) > HistoryLimit
  THEN [S EXCEPT !.messageHistory[room] = SubSeq(@, 1, HistoryLimit)]
  ELSE S

CapHistory(S, room) ==
  IF Len(S.messageHistory[room]) > HistoryLimit
  THEN [S EXCEPT !.messageHistory[room] = SliceLast(@, HistoryLimit)]
  ELSE S

\* variant: a text that starts with "/" is not set apart but stored and
\* broadcast like any other message
chatMessageStoresCommands(S, c, text) ==
  IF c \notin DOMAIN S.users
  THEN Emit(S, Event("error", {c}, "Please join first", Null, <<>>))
  ELSE IF text = <<>> \/ Len(Trim(text)) = 0 THEN S
  ELSE IF c \notin DOMAIN S.userRooms
          \/ S.userRooms[c] \notin DOMAIN S.rooms THEN S
  ELSE
    LET message == Substring0(Trim(text), MessageLimit)
        currentRoom == S.userRooms[c]
        messageData == [type |-> "public", id |-> S.clock,
                        user |-> S.users[c], userId |-> c,
                        message |-> message, room |-> currentRoom,
                        reactions |-> NoReactions]
    IN EmitToRoom(
         saveMessageHistory(
           CapHistory(StoreMessage(S, currentRoom, messageData),
                      currentRoom)),
         "chat message", "public", currentRoom, messageData)

chatMessage(S, c, text) ==
  IF c \notin DOMAIN S.users
  THEN Emit(S, Event("error", {c}, "Please join first", Null, <<>>))
  ELSE IF text = <<>> \/ Len(Trim(text)) = 0 THEN S
  ELSE
    LET message == Substring0(Trim(text), MessageLimit)
    IN IF StartsWithSlash(message) THEN handleCommand(S, c, message)
       ELSE IF c \notin DOMAIN S.userRooms
               \/ S.userRooms[c] \notin DOMAIN S.rooms THEN S
       ELSE
         LET currentRoom == S.userRooms[c]
             messageData == [type |-> "public", id |-> S.clock,
                             user |-> S.users[c], userId |-> c,
                             message |-> message, room |-> currentRoom,
                             reactions |-> NoReactions]
         IN EmitToRoom(
              saveMessageHistory(
                CapHistory(StoreMessage(S, currentRoom, messageData),
                           currentRoom)),
              "chat message", "public", currentRoom, messageData)

OnChatMessage(c, text) ==
  /\ Ready(c)
  /\ Commit(chatMessage(Cur, c, text))

(***************************************************************************)
(* socket.on("file message"): data.file is kept in the message field.      *)
(***************************************************************************)
fileMessage(S, c, file) ==
  IF c \notin DOMAIN S.users THEN S
  ELSE IF c \notin DOMAIN S.userRooms THEN S
  ELSE
    LET currentRoom == S.userRooms[c]
        messageData == [type |-> "file", id |-> S.clock,
                        user |-> S.users[c], userId |-> c,
                        message |-> file, room |-> currentRoom,
                        reactions |-> NoReactions]
    IN EmitToRoom(
         saveMessageHistory(StoreMessage(S, currentRoom, messageData)),
         "chat message", "file", currentRoom, messageData)

OnFileMessage(c, file) ==
  /\ Ready(c)
  /\ Commit(fileMessage(Cur, c, file))

(***************************************************************************)
(* socket.on("private message").  A socket id is the name of the channel   *)
(* that socket alone is in; room ids are never socket ids.                 *)
(***************************************************************************)
\* variant: the copy for the addressee goes out on io.emit
privateMessageToAll(S, c, toUserId, text) ==
  IF c \notin DOMAIN S.users THEN S
  ELSE IF toUserId = 0 \/ text = <<>>
  THEN Emit(S, Event("error", {c}, "Invalid private message", Null, <<>>))
  ELSE IF toUserId \notin DOMAIN S.users
  THEN Emit(S, Event("error", {c}, "User not found", Null, <<>>))
  ELSE
    LET messageData == [type |-> "private", id |-> S.clock,
                        from |-> S.users[c], fromId |-> c,
                        to |-> S.users[toUserId], toId |-> toUserId,
                        message |-> Substring0(Trim(text), MessageLimit)]
    IN Emit(Emit(S, Event("private message", {c}, "private", Null,
                          messageData)),
            Event("private message", Open(S), "private", Null,
                  messageData))

privateMessage(S, c, toUserId, text) ==
  IF c \notin DOMAIN S.users THEN S
  ELSE IF toUserId = 0 \/ text = <<>>
  THEN Emit(S, Event("error", {c}, "Invalid private message", Null, <<>>))
  ELSE IF toUserId \notin DOMAIN S.users
  THEN Emit(S, Event("error", {c}, "User not found", Null, <<>>))
  ELSE
    LET messageData == [type |-> "private", id |-> S.clock,
                        from |-> S.users[c], fromId |-> c,
                        to |-> S.users[toUserId], toId |-> toUserId,
                        message |-> Substring0(Trim(text), MessageLimit)]
    IN Emit(Emit(S, Event("private message", {c}, "private", Null,
                          messageData)),
            Event("private message", Open(S) \cap {toUserId}, "private", Null,
                  messageData))

OnPrivateMessage(c, toUserId, text) ==
  /\ Ready(c)
  /\ Commit(privateMessage(Cur, c, toUserId, text))

(***************************************************************************)
(* socket.on("message reaction").  message.reactions is a map from emoji   *)
(* to the array of usernames; an absent reactions field and {} are both    *)
(* the map with no key.  reactions is a plain object: a name that         *)
(* Object.prototype supplies reads as a value that is not an array, and    *)
(* calling indexOf on it throws out of the handler.                        *)
(***************************************************************************)
ObjectPrototype == {"constructor"}

IndexOf(list, x) ==
  IF \E i \in 1..Len(list) : list[i] = x
  THEN CHOOSE i \in 1..Len(list) :
         list[i] = x /\ \A j \in 1..(i - 1) : list[j] # x
  ELSE 0

Splice1(list, i) == SubSeq(list, 1, i - 1) \o SubSeq(list, i + 1, Len(list))

toggleReaction(reactions, emoji, username) ==
  LET r1 == [e \in DOMAIN reactions \cup {emoji} |->
               IF e \in DOMAIN reactions THEN reactions[e] ELSE <<>>]
      userIndex == IndexOf(r1[emoji], username)
  IN IF userIndex > 0
     THEN IF Splice1(r1[emoji], userIndex) = <<>>
          THEN Restrict(r1, DOMAIN r1 \ {emoji})
          ELSE [r1 EXCEPT ![emoji] = Splice1(@, userIndex)]
     ELSE [r1 EXCEPT ![emoji] = Append(@, username)]

\* messageHistory[roomId].find(msg => msg.id === messageId), as an index
FindMessage(q, messageId) ==
  IF \E i \in 1..Len(q) : q[i].id = messageId
  THEN CHOOSE i \in 1..Len(q) :
         q[i].id = messageId /\ \A j \in 1..(i - 1) : q[j].id # messageId
  ELSE 0

messageReaction(S, c, messageId, emoji, roomId) ==
  IF c \notin DOMAIN S.users THEN S
  ELSE IF roomId \notin DOMAIN S.messageHistory THEN S
  ELSE
    LET i == FindMessage(S.messageHistory[roomId], messageId)
    IN IF i = 0 THEN S
       ELSE IF emoji \in ObjectPrototype THEN [S EXCEPT !.crashed = TRUE]
       ELSE
         LET reactions == toggleReaction(
                            S.messageHistory[roomId][i].reactions, emoji,
                            S.users[c])
         IN EmitToRoom(
              saveMessageHistory(
                [S EXCEPT !.messageHistory[roomId][i].reactions = reactions]),
              "message reaction", "", roomId,
              [messageId |-> messageId, reactions |-> reactions])

OnMessageReaction(c, messageId, emoji, roomId) ==
  /\ Ready(c)
  /\ Commit(messageReaction(Cur, c, messageId, emoji, roomId))

(***************************************************************************)
(* socket.on("typing")                                                     *)
(***************************************************************************)
typing(S, c, isTyping) ==
  IF c \in DOMAIN S.users /\ c \in DOMAIN S.userRooms
  THEN Emit(S, Event("user typing", Listeners(S, S.userRooms[c]) \ {c}, "",
                     S.userRooms[c],
                     [username |-> S.users[c], isTyping |-> isTyping]))
  ELSE S

OnTyping(c, isTyping) ==
  /\ Ready(c)
  /\ Commit(typing(Cur, c, isTyping))

(***************************************************************************)
(* socket.on("get room info")                                              *)
(***************************************************************************)
getRoomInfo(S, c, roomId) ==
  IF roomId \notin DOMAIN S.rooms THEN S
  ELSE IF \E m \in S.rooms[roomId].users : m \notin DOMAIN S.users
  THEN [S EXCEPT !.crashed = TRUE]
  ELSE Emit(S, Event("room info", {c}, "", roomId,
                     [type |-> S.rooms[roomId].type,
                      userCount |-> Cardinality(S.rooms[roomId].users),
                      users |-> [m \in S.rooms[roomId].users |-> S.users[m]],
                      creator |-> S.rooms[roomId].creator]))

OnGetRoomInfo(c, roomId) ==
  /\ Ready(c)
  /\ Commit(getRoomInfo(Cur, c, roomId))

(***************************************************************************)
(* Initial state: the two seeded rooms, no persisted history found.        *)
(***************************************************************************)
SystemRoom(id, name) ==
  [id |-> id, name |-> name, type |-> "public", key |-> Null,
   creator |-> <<"S", "y", "s", "t", "e", "m">>, users |-> {}]

Init ==
  /\ sockets = [c \in Conns |-> "new"]
  /\ users = [c \in {} |-> <<>>]
  /\ userRooms = [c \in {} |-> <<>>]
  /\ rooms = [r \in DefaultRooms |->
                IF r = General THEN SystemRoom(General, <<"G">>)
                ELSE SystemRoom(Random, <<"R">>)]
  /\ messageHistory = [r \in {} |-> <<>>]
  /\ channels = [c \in Conns |-> {}]
  /\ clock = 0
  /\ crashed = FALSE
  /\ out = <<>>
  /\ lastJoinKey = [c \in Conns |-> Null]
  /\ madeBy = [r \in {} |-> 0]
  /\ writes = <<>>
  /\ disk = messageHistory

(***************************************************************************)
(* Initial state when loadMessageHistory() finds a snapshot that holds one *)
(* message of general, stored by an earlier run of the server.             *)
(***************************************************************************)
Persisted ==
  [type |-> "public", id |-> -1, user |-> <<"z">>, userId |-> 0,
   message |-> <<"h", "i">>, room |-> General, reactions |-> NoReactions]

InitLoaded ==
  /\ sockets = [c \in Conns |-> "new"]
  /\ users = [c \in {} |-> <<>>]
  /\ userRooms = [c \in {} |-> <<>>]
  /\ rooms = [r \in DefaultRooms |->
                IF r = General THEN SystemRoom(General, <<"G">>)
                ELSE SystemRoom(Random, <<"R">>)]
  /\ messageHistory = [r \in {General} |-> <<Persisted>>]
  /\ channels = [c \in Conns |-> {}]
  /\ clock = 0
  /\ crashed = FALSE
  /\ out = <<>>
  /\ lastJoinKey = [c \in Conns |-> Null]
  /\ madeBy = [r \in {} |-> 0]
  /\ writes = <<>>
  /\ disk = messageHistory

(***************************************************************************)
(* Inputs of the events.  A key is drawn only where the code calls         *)
(* generateRoomKey(), and a join request carries a key only for a private  *)
(* room (the code reads it for no other).                                  *)
(***************************************************************************)
PrivateIds(rs) == {r \in DOMAIN rs : rs[r].type = "private"}

RoomNames   == {<<"A">>, <<" ">>}
RoomTypes   == {"", "private"}
Unknown     == <<"x">>
RequestKeys == generateRoomKey \cup {Undefined}
Bodies      == {<<"y", "o">>, <<" ">>, <<>>}
Files       == {<<"f">>}
Emojis      == {"+", "constructor"}

SuffixDraws(c, n) ==
  IF createdId(Cur, c, n, <<>>) \subseteq {Slug(Substring0(Trim(n), NameLimit))}
  THEN {<<>>} ELSE generateRoomKey

KeyDraws(t) == IF t = "private" THEN generateRoomKey ELSE {<<>>}

KeysFor(r) == IF r \in PrivateIds(rooms) THEN RequestKeys ELSE {Null}

(***************************************************************************)
(* The history variables.  Track records, after the handler served socket  *)
(* c, who created each private room and the key of each member's most      *)
(* recent join room request for the private room it is in; newRooms are    *)
(* the ids the handler registered by rooms.set, req the join room request  *)
(* served (<<roomId, key>>) or <<>>.  NoTrack leaves them alone.           *)
(***************************************************************************)
PrivateOf(rs, x) == {r \in PrivateIds(rs) : x \in rs[r].users}

Track(c, newRooms, req) ==
  /\ madeBy' = [r \in PrivateIds(rooms') |->
                  IF r \in newRooms THEN c ELSE madeBy[r]]
  /\ lastJoinKey' =
       [x \in Conns |->
          IF PrivateOf(rooms', x) = {} THEN Null
          ELSE IF x = c /\ PrivateOf(rooms', x) \cap newRooms # {} THEN Null
          ELSE IF x = c /\ req # <<>> /\ req[1] \in PrivateOf(rooms', x)
               THEN req[2]
          ELSE lastJoinKey[x]]
  /\ UNCHANGED <<writes, disk>>

NoTrack == UNCHANGED <<madeBy, lastJoinKey, writes, disk>>

(***************************************************************************)
(* Spec: the room life cycle.  Sockets under one username create, join and *)
(* leave public and private rooms and disconnect; the history is the       *)
(* loaded snapshot.                                                        *)
(***************************************************************************)
Usernames == {<<"a", " ">>}

Next ==
  \/ \E c \in Conns : OnConnection(c) /\ NoTrack
  \/ \E c \in Conns, u \in Usernames : OnUserJoin(c, u) /\ NoTrack
  \/ \E c \in Conns : OnDisconnect(c) /\ NoTrack
  \/ \E c \in Conns, n \in RoomNames, t \in RoomTypes :
       \E k1 \in SuffixDraws(c, n), k2 \in KeyDraws(t) :
         OnCreateRoom(c, n, t, k1, k2) /\ NoTrack
  \/ \E c \in Conns, r \in DOMAIN rooms \cup {Unknown} :
       \E k \in KeysFor(r) : OnJoinRoom(c, r, k) /\ NoTrack
  \/ \E c \in Conns : OnLeaveRoom(c) /\ NoTrack

Spec == InitLoaded /\ [][Next]_vars

(***************************************************************************)
(* SpecAccess: the same events with private rooms only and the history     *)
(* variables recorded.                                                     *)
(***************************************************************************)
NextAccess ==
  \/ \E c \in Conns : OnConnection(c) /\ Track(c, {}, <<>>)
  \/ \E c \in Conns, u \in Usernames : OnUserJoin(c, u) /\ Track(c, {}, <<>>)
  \/ \E c \in Conns : OnDisconnect(c) /\ Track(c, {}, <<>>)
  \/ \E c \in Conns, n \in {<<"A">>} :
       \E k1 \in SuffixDraws(c, n), k2 \in generateRoomKey :
         /\ OnCreateRoom(c, n, "private", k1, k2)
         /\ Track(c, createdId(Cur, c, n, k1), <<>>)
  \/ \E c \in Conns, r \in DOMAIN rooms :
       \E k \in KeysFor(r) \cap (generateRoomKey \cup {Null}) :
         /\ OnJoinRoom(c, r, k)
         /\ Track(c, {}, IF c \in DOMAIN users THEN <<r, k>> ELSE <<>>)
  \/ \E c \in Conns : OnLeaveRoom(c) /\ Track(c, {}, <<>>)

SpecAccess == Init /\ [][NextAccess]_vars

(***************************************************************************)
(* SpecChat: messages in the two seeded rooms.  Sockets under two          *)
(* usernames join, switch between general and random, send chat, file and  *)
(* private messages, react and type; a create room request is served only  *)
(* where it registers no room (unidentified sender, or empty name).        *)
(***************************************************************************)
ChatUsernames == {<<"a">>, <<"b", " ">>}
Texts == {<<"h", "i">>, <<"/", "l", "e", "a", "v", "e">>}

NextChat ==
  \/ \E c \in Conns : OnConnection(c) /\ NoTrack
  \/ \E c \in Conns, u \in ChatUsernames : OnUserJoin(c, u) /\ NoTrack
  \/ \E c \in Conns : OnDisconnect(c) /\ NoTrack
  \/ \E c \in Conns, t \in Texts :
       OnChatMessage(c, t) /\ clock' <= MaxMsgs /\ NoTrack
  \/ \E c \in Conns, f \in Files :
       OnFileMessage(c, f) /\ clock' <= MaxMsgs /\ NoTrack
  \/ \E c \in Conns, to \in Conns \cup {0}, b \in Bodies :
       OnPrivateMessage(c, to, b) /\ NoTrack
  \/ \E c \in Conns, n \in RoomNames :
       /\ createdId(Cur, c, n, <<>>) = {}
       /\ OnCreateRoom(c, n, "", <<>>, <<>>)
       /\ NoTrack
  \/ \E c \in Conns, r \in DOMAIN rooms \cup {Unknown} :
       OnJoinRoom(c, r, Null) /\ NoTrack
  \/ \E c \in Conns : OnLeaveRoom(c) /\ NoTrack
  \/ \E c \in Conns, r \in DOMAIN rooms \cup {Unknown} :
       OnGetRoomInfo(c, r) /\ NoTrack
  \/ \E c \in Conns, id \in 0..(MaxMsgs - 1), e \in Emojis,
        r \in DOMAIN messageHistory \cup {Unknown} :
       OnMessageReaction(c, id, e, r) /\ NoTrack
  \/ \E c \in Conns, b \in BOOLEAN : OnTyping(c, b) /\ NoTrack

SpecChat == Init /\ [][NextChat]_vars

(***************************************************************************)
(* SpecHist: one socket fills the history of general from empty.  A chat   *)
(* message, file message, reaction, join room, leave room and disconnect   *)
(* are all served; the number of file messages and of messages overall is  *)
(* bounded.                                                                *)
(***************************************************************************)
MaxFiles == 1
MaxClock == 101

FileCount(h) ==
  Cardinality({p \in {<<r, i>> : r \in DOMAIN h, i \in 1..MaxClock} :
                 p[2] <= Len(h[p[1]]) /\ h[p[1]][p[2]].type = "file"})

NextHist ==
  \/ OnConnection(1) /\ NoTrack
  \/ OnUserJoin(1, <<"a">>) /\ NoTrack
  \/ OnDisconnect(1) /\ NoTrack
  \/ OnChatMessage(1, <<"h", "i">>) /\ clock' <= MaxClock /\ NoTrack
  \/ \E f \in Files :
       /\ OnFileMessage(1, f)
       /\ clock' <= MaxClock
       /\ FileCount(messageHistory') <= MaxFiles
       /\ NoTrack
  \/ OnMessageReaction(1, 0, "+", General) /\ NoTrack
  \/ \E r \in {General, Unknown} : OnJoinRoom(1, r, Null) /\ NoTrack
  \/ OnLeaveRoom(1) /\ NoTrack

SpecHist == Init /\ [][NextHist]_vars

(***************************************************************************)
(* SpecAppend: the events of SpecHist, started from a snapshot that holds   *)
(* one message of random, stored by an earlier run of the server.          *)
(***************************************************************************)
PersistedRandom == [Persisted EXCEPT !.room = Random]

InitAppend ==
  /\ sockets = [c \in Conns |-> "new"]
  /\ users = [c \in {} |-> <<>>]
  /\ userRooms = [c \in {} |-> <<>>]
  /\ rooms = [r \in DefaultRooms |->
                IF r = General THEN SystemRoom(General, <<"G">>)
                ELSE SystemRoom(Random, <<"R">>)]
  /\ messageHistory = [r \in {Random} |-> <<PersistedRandom>>]
  /\ channels = [c \in Conns |-> {}]
  /\ clock = 0
  /\ crashed = FALSE
  /\ out = <<>>
  /\ lastJoinKey = [c \in Conns |-> Null]
  /\ madeBy = [r \in {} |-> 0]
  /\ writes = <<>>
  /\ disk = messageHistory

SpecAppend == InitAppend /\ [][NextHist]_vars

(***************************************************************************)
(* SpecOrphan: sockets under one username create the public room "A",      *)
(* join and disconnect, and send file messages; the history starts empty   *)
(* and the number of messages is bounded.                                  *)
(***************************************************************************)
NextOrphan ==
  \/ \E c \in Conns : OnConnection(c) /\ NoTrack
  \/ \E c \in Conns : OnUserJoin(c, <<"a">>) /\ NoTrack
  \/ \E c \in Conns : OnDisconnect(c) /\ NoTrack
  \/ \E c \in Conns :
       \E k1 \in SuffixDraws(c, <<"A">>) :
         OnCreateRoom(c, <<"A">>, "", k1, <<>>) /\ NoTrack
  \/ \E c \in Conns, r \in DOMAIN rooms : OnJoinRoom(c, r, Null) /\ NoTrack
  \/ \E c \in Conns, f \in Files :
       OnFileMessage(c, f) /\ clock' <= MaxMsgs /\ NoTrack

SpecOrphan == Init /\ [][NextOrphan]_vars

(***************************************************************************)
(* SpecInfo: sockets under one username create the public room "A", join,  *)
(* leave, ask for room info and disconnect.                                *)
(***************************************************************************)
NextInfo ==
  \/ \E c \in Conns : OnConnection(c) /\ NoTrack
  \/ \E c \in Conns : OnUserJoin(c, <<"a">>) /\ NoTrack
  \/ \E c \in Conns : OnDisconnect(c) /\ NoTrack
  \/ \E c \in Conns :
       \E k1 \in SuffixDraws(c, <<"A">>) :
         OnCreateRoom(c, <<"A">>, "", k1, <<>>) /\ NoTrack
  \/ \E c \in Conns, r \in DOMAIN rooms : OnJoinRoom(c, r, Null) /\ NoTrack
  \/ \E c \in Conns : OnLeaveRoom(c) /\ NoTrack
  \/ \E c \in Conns, r \in DOMAIN rooms \cup {Unknown} :
       OnGetRoomInfo(c, r) /\ NoTrack

SpecInfo == Init /\ [][NextInfo]_vars

(***************************************************************************)
(* SpecSnapshot: the snapshot file.  saveMessageHistory() is called without *)
(* await: JSON.stringify(messageHistory) is evaluated in the call, the      *)
(* write itself is carried out later, while further handlers run, and the  *)
(* writes of several calls finish in any order.  A write replaces the      *)
(* whole file; a failure is caught and logged.  One socket joins, switches *)
(* rooms, sends a message and reacts to it.                                *)
(***************************************************************************)
MaxWrites == 3

IsWrite(e) == e.ev = "writeFile"

\* the calls of fs.writeFile a handler made, oldest first
Dispatched(o) ==
  [i \in 1..Len(SelectSeq(o, IsWrite)) |->
     [body |-> SelectSeq(o, IsWrite)[i].body, state |-> "pending"]]

\* the handler returns with its writes dispatched and none of them awaited
Dispatch ==
  /\ writes' = writes \o Dispatched(out')
  /\ Len(writes') <= MaxWrites
  /\ UNCHANGED <<disk, madeBy, lastJoinKey>>

Settle(i, state) ==
  /\ i \in 1..Len(writes)
  /\ writes[i].state = "pending"
  /\ writes' = [writes EXCEPT ![i].state = state]
  /\ UNCHANGED <<sockets, users, userRooms, rooms, messageHistory, channels,
                 clock, crashed, out, lastJoinKey, madeBy>>

\* await fs.writeFile(...) resolves: the file holds the text of that call
WriteCompletes(i) == Settle(i, "done") /\ disk' = writes[i].body

\* await fs.writeFile(...) rejects: catch (error) { console.error(...) }
WriteFails(i) == Settle(i, "failed") /\ disk' = disk

NextSnapshot ==
  \/ OnConnection(1) /\ Dispatch
  \/ OnUserJoin(1, <<"a">>) /\ Dispatch
  \/ OnChatMessage(1, <<"h", "i">>) /\ clock' <= MaxMsgs /\ Dispatch
  \/ \E r \in DOMAIN messageHistory :
       OnMessageReaction(1, 0, "+", r) /\ Dispatch
  \/ \E r \in DOMAIN rooms : OnJoinRoom(1, r, Null) /\ Dispatch
  \/ \E i \in 1..MaxWrites : WriteCompletes(i)
  \/ \E i \in 1..MaxWrites : WriteFails(i)

SpecSnapshot == Init /\ [][NextSnapshot]_vars

(***************************************************************************)
(* SpecIdentify: sockets identify, again and under the same name, with     *)
(* usernames that are empty, blank, padded and longer than the limit, and  *)
(* move between the seeded rooms.                                          *)
(***************************************************************************)
LongName == [i \in 1..(NameLimit + 1) |-> "b"]
IdentifyNames == {<<>>, <<" ">>, <<"a">>, <<" ", "a", " ">>, LongName}

NextIdentify ==
  \/ \E c \in Conns : OnConnection(c) /\ NoTrack
  \/ \E c \in Conns, u \in IdentifyNames : OnUserJoin(c, u) /\ NoTrack
  \/ \E c \in Conns : OnDisconnect(c) /\ NoTrack
  \/ \E c \in Conns, r \in DOMAIN rooms : OnJoinRoom(c, r, Null) /\ NoTrack

SpecIdentify == InitLoaded /\ [][NextIdentify]_vars

(***************************************************************************)
(* SpecCommand: chat texts that start with "/" (every command, with and    *)
(* without its arguments, padded, in upper case, unknown, and "/" alone),  *)
(* next to plain chat messages and changes between the seeded rooms.       *)
(***************************************************************************)
CommandTexts ==
  {<<"/", "h", "e", "l", "p">>,
   <<"/", "u", "s", "e", "r", "s">>,
   <<"/", "r", "o", "o", "m", "s">>,
   <<"/", "c", "r", "e", "a", "t", "e">>,
   <<"/", "c", "r", "e", "a", "t", "e", " ", "A">>,
   <<"/", "c", "r", "e", "a", "t", "e", " ", "A", " ", "p", "r", "i", "v", "a", "t", "e">>,
   <<"/", "j", "o", "i", "n">>,
   <<"/", "j", "o", "i", "n", " ", "r", "a", "n", "d", "o", "m">>,
   <<"/", "j", "o", "i", "n", " ", "a", " ", "I">>,
   <<"/", "l", "e", "a", "v", "e">>,
   <<" ", "/", "L", "E", "A", "V", "E", " ">>,
   <<"/", "i", "n", "f", "o">>,
   <<"/", "p", "m">>,
   <<"/", "p", "m", " ", "A", " ", "y", "o">>,
   <<"/", "p", "m", " ", "z", "z", " ", "y", "o">>,
   <<"/", "x", "y", "z">>,
   <<"/">>}

NextCommand ==
  \/ \E c \in Conns : OnConnection(c) /\ NoTrack
  \/ \E c \in Conns, u \in ChatUsernames : OnUserJoin(c, u) /\ NoTrack
  \/ \E c \in Conns, t \in CommandTexts : OnChatMessage(c, t) /\ NoTrack
  \/ \E c \in Conns :
       OnChatMessage(c, <<"h", "i">>) /\ clock' <= MaxMsgs /\ NoTrack
  \/ \E c \in Conns, r \in DOMAIN rooms : OnJoinRoom(c, r, Null) /\ NoTrack

SpecCommand == Init /\ [][NextCommand]_vars

(***************************************************************************)
(* Properties of the room life cycle (Spec).                               *)
(***************************************************************************)
RECURSIVE SumCounts(_)
SumCounts(f) ==
  IF DOMAIN f = {} THEN 0
  ELSE LET r == CHOOSE x \in DOMAIN f : TRUE
       IN f[r] + SumCounts(Restrict(f, DOMAIN f \ {r}))

Kinds(kind) == {i \in 1..Len(out) : out[i].kind = kind}
RoomLists == {i \in 1..Len(out) : out[i].ev = "room list"}

\* C1: between handlers, for every connection c and every registered room
\* R, the current-room pointer of c is R if and only if R's member set
\* contains c.
C1_PointerIffMember ==
  \A c \in Conns, R \in DOMAIN rooms :
    (c \in DOMAIN userRooms /\ userRooms[c] = R) <=> c \in rooms[R].users

\* C2: a connection is in the member set of at most one registered room, and
\* in every room list sent the user counts sum to at most the number of
\* identified connections at that moment.
C2_AtMostOneRoom ==
  /\ \A c \in Conns :
       Cardinality({R \in DOMAIN rooms : c \in rooms[R].users}) <= 1
  /\ \A i \in RoomLists :
       SumCounts(out[i].body.counts) <= out[i].body.identified

\* a switch from one room to another: the "left" notice of room A, then the
\* "joined" notice of room B, with a room list after each
C2_Witness ==
  \E i \in Kinds("left"), j \in Kinds("joined") :
    /\ i < j
    /\ out[i].room # out[j].room
    /\ \E a \in RoomLists, b \in RoomLists : i < a /\ a < j /\ j < b
    /\ out[j].room \notin DefaultRooms

JoinFails(r, k) ==
  r \notin DOMAIN rooms \/ (rooms[r].type = "private" /\ rooms[r].key # k)

\* C5: a join room request of an identified connection that fails validation
\* (unknown room id, or private room with a missing or non-matching key)
\* sends one error event, to the requester only, and leaves the user
\* registry, the room registry with every member set, every current-room
\* pointer, the channel subscriptions and the history unchanged.
C5_FailedJoinChangesNothing ==
  [][\A c \in Conns, r \in DOMAIN rooms \cup {Unknown},
        k \in RequestKeys \cup {Null} :
       (c \in DOMAIN users /\ JoinFails(r, k) /\ OnJoinRoom(c, r, k)) =>
         /\ UNCHANGED <<users, rooms, userRooms, messageHistory, channels>>
         /\ Len(out') = 1
         /\ out'[1].ev = "error"
         /\ out'[1].to = {c}]_vars

\* a member of one room was just refused the key of a private room
C5_Witness ==
  /\ Len(out) = 1
  /\ out[1].kind = "Invalid room key"
  /\ \E c \in out[1].to :
       /\ c \in DOMAIN userRooms
       /\ userRooms[c] \in DOMAIN rooms
       /\ c \in rooms[userRooms[c]].users
       /\ PrivateIds(rooms) \ {userRooms[c]} # {}

\* C6: between handlers every registered room other than general and random
\* has a member, and general and random are always registered.
C6_RoomLifetime ==
  /\ DefaultRooms \subseteq DOMAIN rooms
  /\ \A R \in DOMAIN rooms \ DefaultRooms : rooms[R].users # {}

\* the last member of a created room just left it: the room is gone, while
\* general stays registered with no member
C6_Witness ==
  /\ \E i \in Kinds("left") :
       out[i].room \notin DefaultRooms /\ out[i].room \notin DOMAIN rooms
  /\ rooms[General].users = {}
  /\ rooms[Random].users # {}

\* C10: the disconnect of an identified connection c leaves c in no member
\* set, without pointer and out of the user registry; the "left" notice of
\* the room it was in (and the deletion of a room it emptied) come while c
\* is still identified and before the one user-list broadcast, which is the
\* last emission.  The disconnect of an unidentified connection changes no
\* registry and emits nothing.
C10_DisconnectTeardown ==
  [][\A c \in Conns : OnDisconnect(c) =>
       IF c \in DOMAIN users
       THEN /\ c \notin DOMAIN users'
            /\ c \notin DOMAIN userRooms'
            /\ \A R \in DOMAIN rooms' : c \notin rooms'[R].users
            /\ Len(out') >= 1
            /\ \A i \in 1..Len(out') :
                 (out'[i].ev = "user list") <=> (i = Len(out'))
            /\ out'[Len(out')].body = Restrict(users, DOMAIN users \ {c})
            /\ \A R \in DOMAIN rooms :
                 c \in rooms[R].users =>
                   /\ \E i \in 1..(Len(out') - 1) :
                        /\ out'[i].kind = "left"
                        /\ out'[i].room = R
                        /\ out'[i].body = users[c]
                        /\ c \notin out'[i].to
                   /\ (rooms[R].users = {c} /\ R \notin DefaultRooms)
                        => R \notin DOMAIN rooms'
            /\ \A i \in 1..Len(out') :
                 out'[i].ev = "room list" =>
                   /\ out'[i].body.identified = Cardinality(DOMAIN users)
                   /\ DOMAIN out'[i].body.counts = DOMAIN rooms'
       ELSE /\ UNCHANGED <<users, userRooms, rooms, messageHistory>>
            /\ out' = <<>>]_vars

\* a connection just disconnected out of a created room it was alone in
C10_Witness ==
  /\ Len(out) >= 2
  /\ out[Len(out)].ev = "user list"
  /\ \E i \in Kinds("left") :
       out[i].room \notin DOMAIN rooms /\ out[i].to = {}
  /\ \E c \in Conns : sockets[c] = "closed"

(***************************************************************************)
(* Access to private rooms (SpecAccess).                                   *)
(***************************************************************************)
\* C4 as stated: every member of a private room is the connection that
\* created it or a connection whose most recent join room request for it
\* carried the room's key.
C4_MostRecentRequestHasKey ==
  \A R \in PrivateIds(rooms) : \A c \in rooms[R].users :
    madeBy[R] = c \/ lastJoinKey[c] = rooms[R].key

\* C4: a connection becomes a member of a private room only in the step in
\* which it creates that room or in which its join room request for that
\* room carries the room's key; so every member is the creator or entered
\* with the key (a later request with a wrong key is refused and leaves it a
\* member).
C4_EntryOnlyByCreationOrKey ==
  [][\A R \in PrivateIds(rooms') : \A c \in rooms'[R].users :
       \/ /\ R \in PrivateIds(rooms)
          /\ c \in rooms[R].users
          /\ madeBy'[R] = madeBy[R]
       \/ /\ madeBy'[R] = c
          /\ \E n \in RoomNames, k1 \in generateRoomKey \cup {<<>>},
                k2 \in generateRoomKey :
               /\ OnCreateRoom(c, n, "private", k1, k2)
               /\ R \in createdId(Cur, c, n, k1)
       \/ /\ R \in PrivateIds(rooms)
          /\ lastJoinKey'[c] = rooms[R].key
          /\ rooms'[R].key = rooms[R].key
          /\ OnJoinRoom(c, R, rooms[R].key)]_vars

\* a private room holds its creator and a second connection, which entered
\* with the key
C4_Witness ==
  \E R \in PrivateIds(rooms) : \E c \in rooms[R].users, d \in rooms[R].users :
    /\ madeBy[R] = d
    /\ c # d
    /\ lastJoinKey[c] = rooms[R].key
    /\ lastJoinKey[d] = Null

(***************************************************************************)
(* Properties of the history (SpecHist).                                   *)
(***************************************************************************)
\* C3: starting from an empty history, after any sequence of chat message,
\* file message, message reaction, join, leave and disconnect events, every
\* room's history has at most 100 entries.
C3_HistoryAtMost100 ==
  \A r \in DOMAIN messageHistory : Len(messageHistory[r]) <= HistoryLimit

(***************************************************************************)
(* Properties of messages (SpecChat).                                      *)
(***************************************************************************)
\* C7: for every stored message, emoji and identified user, serving the
\* message reaction event twice in a row leaves the message's reaction map as
\* it was: the same emoji keys, each with the same usernames in the same
\* order.
C7_ToggleTwiceRestores ==
  \A c \in DOMAIN users, r \in DOMAIN messageHistory, e \in Emojis :
    \A i \in 1..Len(messageHistory[r]) :
      LET id == messageHistory[r][i].id
          S1 == messageReaction(Cur, c, id, e, r)
          S2 == messageReaction([S1 EXCEPT !.out = <<>>], c, id, e, r)
      IN S2.messageHistory[r][i].reactions = messageHistory[r][i].reactions

\* the events C8 lists, sent by socket c
RequestFrom(c) ==
  \/ \E t \in Texts : OnChatMessage(c, t)
  \/ \E to \in Conns \cup {0}, b \in Bodies : OnPrivateMessage(c, to, b)
  \/ \E n \in RoomNames, t \in RoomTypes : OnCreateRoom(c, n, t, <<>>, <<>>)
  \/ \E r \in DOMAIN rooms \cup {Unknown} : OnJoinRoom(c, r, Null)
  \/ OnLeaveRoom(c)
  \/ \E f \in Files : OnFileMessage(c, f)
  \/ \E id \in 0..(MaxMsgs - 1), e \in Emojis,
        r \in DOMAIN messageHistory \cup {Unknown} :
       OnMessageReaction(c, id, e, r)
  \/ \E b \in BOOLEAN : OnTyping(c, b)

\* C8: a chat message, private message, create room, join room, leave room,
\* file message, message reaction or typing event from a socket that has not
\* identified leaves the user registry, the room registry, the memberships and
\* the history unchanged and emits nothing to any other socket; a chat message
\* is answered by one error to the sender.
C8_UnidentifiedChangesNothing ==
  [][\A c \in Conns :
       c \notin DOMAIN users /\ RequestFrom(c) =>
         /\ UNCHANGED <<users, rooms, userRooms, messageHistory, channels>>
         /\ \A i \in 1..Len(out') : out'[i].to \subseteq {c}
         /\ (\E t \in Texts : OnChatMessage(c, t)) =>
              out' = <<Event("error", {c}, "Please join first", Null, <<>>)>>
    ]_vars

C8_Witness ==
  \E c \in Conns :
    /\ sockets[c] = "open"
    /\ c \notin DOMAIN users
    /\ DOMAIN users # {}
    /\ DOMAIN messageHistory # {}
    /\ out = <<Event("error", {c}, "Please join first", Null, <<>>)>>

\* C9: in every reachable state, serving a private message from an identified
\* socket leaves every room's history as it was and emits only to the sender
\* and to the addressed socket; when the target is not an identified socket or
\* the body is empty, the only emission is one error to the sender.
C9_PrivateMessageDirect ==
  \A c \in DOMAIN users, to \in Conns \cup {0}, b \in Bodies :
    Ready(c) =>
      LET S == privateMessage(Cur, c, to, b)
      IN /\ S.messageHistory = messageHistory
         /\ \A i \in 1..Len(S.out) :
              S.out[i].ev # "writeFile" /\ S.out[i].to \subseteq {c, to}
         /\ (to \notin DOMAIN users \/ b = <<>>) =>
              /\ Len(S.out) = 1
              /\ S.out[1].ev = "error"
              /\ S.out[1].to = {c}
         /\ (to \in DOMAIN users /\ b # <<>>) =>
              /\ Len(S.out) = 2
              /\ \A i \in 1..2 : S.out[i].ev = "private message"
              /\ S.out[1].to = {c}
              /\ S.out[2].to = {to}

C9_Witness ==
  /\ Len(out) = 2
  /\ \A i \in 1..2 : out[i].ev = "private message"
  /\ out[1].to # out[2].to
  /\ out[2].to # {}
  /\ \E r \in DOMAIN messageHistory : Len(messageHistory[r]) > 0

(***************************************************************************)
(* System notices and the history (SpecChat).                              *)
(***************************************************************************)
Notices == {i \in 1..Len(out) : out[i].kind \in {"joined", "left"}}

C12_OneLeftNoticePerDeparture ==
  \A i, j \in Kinds("left") :
    out[i].room = out[j].room /\ out[i].to \cap out[j].to # {} => i = j

(***************************************************************************)
(* Identification (SpecIdentify).                                          *)
(***************************************************************************)
\* name is username without the spaces around it, cut after NameLimit
\* characters
TrimmedAndCut(name, username) ==
  \E i \in 1..Len(username) :
    /\ \A k \in 1..(i - 1) : username[k] = " "
    /\ username[i] # " "
    /\ Len(name) >= 1
    /\ i + Len(name) - 1 <= Len(username)
    /\ name = SubSeq(username, i, i + Len(name) - 1)
    /\ \/ Len(name) = NameLimit
       \/ /\ Len(name) < NameLimit
          /\ name[Len(name)] # " "
          /\ \A k \in (i + Len(name))..Len(username) : username[k] = " "

Blank(username) == \A k \in 1..Len(username) : username[k] = " "

\* C13: a user join whose username is empty after trimming gets one error,
\* and no registry, membership, pointer or history changes; any other
\* username, also one another socket is bound to, is bound to the socket
\* trimmed and cut to 20 characters, and the socket is a member of general
\* with its pointer there, the other sockets' names unchanged.
C13_Identify ==
  [][\A c \in Conns, u \in IdentifyNames :
       OnUserJoin(c, u) =>
         IF Blank(u)
         THEN /\ UNCHANGED <<users, userRooms, rooms, messageHistory, channels>>
              /\ Len(out') = 1
              /\ out'[1].ev = "error"
              /\ out'[1].to = {c}
         ELSE /\ DOMAIN users' = DOMAIN users \cup {c}
              /\ TrimmedAndCut(users'[c], u)
              /\ \A d \in DOMAIN users \ {c} : users'[d] = users[d]
              /\ c \in rooms'[General].users
              /\ userRooms'[c] = General
              /\ ~crashed'
    ]_vars

\* two sockets are bound to the same name, cut to the limit, the second one
\* just identified
C13_Witness ==
  /\ DOMAIN users = Conns
  /\ \A c, d \in Conns : users[c] = users[d] /\ Len(users[c]) = NameLimit
  /\ Kinds("welcome") # {}
  /\ rooms[General].users = Conns

(***************************************************************************)
(* Chat commands (SpecCommand).                                            *)
(***************************************************************************)
\* the registries a handler leaves behind
Registries(S) == <<S.users, S.rooms, S.userRooms, S.channels>>

\* C14: for an identified socket the chat texts "/leave", "/join random" and
\* "/create A" leave the registries as the leave room event, the join room
\* event for random and the create room event for "A" would.
C14_CommandsActOnRegistries ==
  [][\A c \in DOMAIN users :
       /\ OnChatMessage(c, <<"/", "l", "e", "a", "v", "e">>) =>
            <<users', rooms', userRooms', channels'>> =
              Registries(leaveRoomRequest(Cur, c))
       /\ OnChatMessage(c, <<"/", "j", "o", "i", "n", " ", "r", "a", "n", "d", "o", "m">>) =>
            <<users', rooms', userRooms', channels'>> =
              Registries(joinRoomRequest(Cur, c, Random, Undefined))
       /\ OnChatMessage(c, <<"/", "c", "r", "e", "a", "t", "e", " ", "A">>) =>
            \E k1 \in generateRoomKey :
              <<users', rooms', userRooms', channels'>> =
                Registries(createRoom(Cur, c, <<"A">>, "public", k1, <<>>))
    ]_vars

C15_JoinPostcondition ==
  [][/\ \A c \in DOMAIN users, r \in DOMAIN rooms, k \in RequestKeys \cup {Null} :
          (~JoinFails(r, k) /\ OnJoinRoom(c, r, k)) =>
            /\ r \in DOMAIN rooms'
            /\ c \in rooms'[r].users
            /\ c \in DOMAIN userRooms' /\ userRooms'[c] = r
     /\ \A d \in DOMAIN userRooms' : userRooms'[d] \in DOMAIN rooms'
    ]_vars

\* C16: between handlers the connections subscribed to the channel of room
\* id R are the members of R in the registry, and nobody when no room R is
\* registered; so a connection is subscribed to at most one channel.
C16_ChannelIsMemberSet ==
  /\ \A R \in DOMAIN rooms : Listeners(Cur, R) = rooms[R].users
  /\ \A c \in Open(Cur) : channels[c] \subseteq DOMAIN rooms
  /\ \A c \in Open(Cur) : Cardinality(channels[c]) <= 1

(***************************************************************************)
(* Appending to a history (SpecAppend).                                    *)
(***************************************************************************)
HistoryOf(h, r) == IF r \in DOMAIN h THEN h[r] ELSE <<>>

\* C17: a public chat message accepted from a member of room R becomes the
\* last entry of R's history; a history of fewer than 100 entries is extended
\* by it, a history of 100 entries loses its first entry; the entries kept
\* are a final part of the previous history in the same order, and no other
\* room's history changes.
C17_AppendAndSlide ==
  [][\A c \in DOMAIN users :
       (/\ c \in DOMAIN userRooms
        /\ userRooms[c] \in DOMAIN rooms
        /\ c \in rooms[userRooms[c]].users
        /\ OnChatMessage(c, <<"h", "i">>)) =>
         LET R == userRooms[c]
             old == HistoryOf(messageHistory, R)
             new == HistoryOf(messageHistory', R)
             m == [type |-> "public", id |-> clock, user |-> users[c],
                   userId |-> c, message |-> <<"h", "i">>, room |-> R,
                   reactions |-> NoReactions]
         IN /\ Len(new) >= 1 /\ new[Len(new)] = m
            /\ Len(old) < HistoryLimit => new = Append(old, m)
            /\ Len(old) = HistoryLimit => new = Append(Tail(old), m)
            /\ \E k \in 0..Len(old) :
                 SubSeq(new, 1, Len(new) - 1) = SubSeq(old, k + 1, Len(old))
            /\ DOMAIN messageHistory' = DOMAIN messageHistory \cup {R}
            /\ \A r \in DOMAIN messageHistory \ {R} :
                 messageHistory'[r] = messageHistory[r]
    ]_vars

\* the 101st message of general has just been stored and broadcast: general
\* holds 100 entries, the first message is gone, and random still holds the
\* message of the snapshot
C17_Witness ==
  /\ General \in DOMAIN messageHistory
  /\ Len(messageHistory[General]) = HistoryLimit
  /\ messageHistory[General][1].id = 1
  /\ messageHistory[General][HistoryLimit].id = HistoryLimit
  /\ messageHistory[General][HistoryLimit].type = "public"
  /\ \E i \in 1..Len(out) :
       out[i].kind = "public" /\ out[i].body = messageHistory[General][HistoryLimit]
  /\ Random \in DOMAIN messageHistory
  /\ messageHistory[Random] = <<PersistedRandom>>

(***************************************************************************)
(* Order of the events of a room switch (Spec).                            *)
(***************************************************************************)
\* the positions in the emissions of the step taken of the events of a kind
KindsNext(kind) == {i \in 1..Len(out') : out'[i].kind = kind}
HistoriesNext == {i \in 1..Len(out') : out'[i].ev = "message history"}

\* C18: in a successful join of connection c, a member of room A, into
\* another room B there is one "left" notice, sent to A's remaining members
\* and not to c, and one "joined" notice, sent to B's members with c among
\* them; the "left" notice comes first, the history of B, sent to c only,
\* lies between the two, and the last event is the room list sent to every
\* open connection.
C18_SwitchOrder ==
  [][\A c \in DOMAIN users, B \in DOMAIN rooms, k \in RequestKeys \cup {Null} :
       (/\ ~JoinFails(B, k)
        /\ c \in DOMAIN userRooms
        /\ userRooms[c] \in DOMAIN rooms \ {B}
        /\ c \in rooms[userRooms[c]].users
        /\ OnJoinRoom(c, B, k)) =>
         LET A == userRooms[c]
         IN /\ \E l \in KindsNext("left"), j \in KindsNext("joined") :
                 /\ KindsNext("left") = {l} /\ KindsNext("joined") = {j}
                 /\ l < j
                 /\ out'[l].room = A
                 /\ out'[l].to = rooms[A].users \ {c}
                 /\ out'[j].room = B
                 /\ out'[j].to = rooms'[B].users
                 /\ c \in out'[j].to
                 /\ \A h \in HistoriesNext :
                      l < h /\ h < j /\ out'[h].to = {c} /\ out'[h].room = B
                 /\ (B \in DOMAIN messageHistory) => HistoriesNext # {}
                 /\ j < Len(out')
            /\ out'[Len(out')].ev = "room list"
            /\ out'[Len(out')].to = Open(Cur)
    ]_vars

(***************************************************************************)
(* Creating a room (Spec).                                                 *)
(***************************************************************************)
\* C20: a create room request of an identified connection with a name that
\* is not blank adds exactly one new id to the registry, with the creator as
\* its only member; every room registered before is still registered and
\* unaltered, except that the creator is removed from the room it occupied
\* and that room, when not a default room and left empty, is deleted.
C20_CreateAddsOneRoom ==
  [][\A c \in DOMAIN users, n \in RoomNames, t \in RoomTypes :
       \A k1 \in SuffixDraws(c, n), k2 \in KeyDraws(t) :
         (createdId(Cur, c, n, k1) # {} /\ OnCreateRoom(c, n, t, k1, k2)) =>
           /\ Cardinality(DOMAIN rooms' \ DOMAIN rooms) = 1
           /\ \A r \in DOMAIN rooms' \ DOMAIN rooms : rooms'[r].users = {c}
           /\ \A r \in DOMAIN rooms \cap DOMAIN rooms' :
                rooms'[r] = [rooms[r] EXCEPT !.users = @ \ {c}]
           /\ \A r \in DOMAIN rooms \ DOMAIN rooms' :
                /\ r \notin DefaultRooms
                /\ c \in DOMAIN userRooms /\ userRooms[c] = r
                /\ rooms[r].users \subseteq {c}
    ]_vars

(***************************************************************************)
(* Histories of deleted rooms (SpecOrphan).                                *)
(***************************************************************************)
\* C21: starting from an empty history, the history map has entries only for
\* registered room ids, and a handler that tells a connection its room was
\* created sends that connection no message history.
C21_NoOrphanHistory ==
  /\ DOMAIN messageHistory \subseteq DOMAIN rooms
  /\ \A i \in Kinds("created") :
       \A h \in 1..Len(out) :
         out[h].ev = "message history" => out[h].to \cap out[i].to = {}

(***************************************************************************)
(* Members and users (SpecInfo).                                           *)
(***************************************************************************)
\* C22: every member of every registered room is in the user registry, no
\* handler has met a member without a bound user, and every room update and
\* room info reply names exactly one user per member listed.
C22_MembersAreUsers ==
  /\ \A R \in DOMAIN rooms : rooms[R].users \subseteq DOMAIN users
  /\ ~crashed
  /\ \A i \in 1..Len(out) :
       /\ out[i].ev = "room info" =>
            /\ DOMAIN out[i].body.users \subseteq DOMAIN users
            /\ out[i].body.userCount = Cardinality(DOMAIN out[i].body.users)
       /\ out[i].ev = "room update" => DOMAIN out[i].body \subseteq DOMAIN users

\* a room info reply for a created room with a member has just been sent,
\* after another connection has disconnected
C22_Witness ==
  /\ Len(out) = 1
  /\ out[1].ev = "room info"
  /\ out[1].room \notin DefaultRooms
  /\ out[1].body.userCount = 1
  /\ \E c \in Conns : sockets[c] = "closed"

(***************************************************************************)
(* The snapshot file (SpecSnapshot).                                       *)
(***************************************************************************)
\* C23: whenever every write dispatched so far has completed without
\* failure, the snapshot file equals the in-memory history map; and a failed
\* write changes no in-memory state and sends nothing to any connection.
C23_SnapshotConverges ==
  /\ [](((\A i \in 1..Len(writes) : writes[i].state = "done")
          => disk = messageHistory))
  /\ [][\A i \in 1..MaxWrites :
          WriteFails(i) =>
            UNCHANGED <<sockets, users, userRooms, rooms, messageHistory,
                        channels, clock, crashed, out>>]_vars

=============================================================================
